---- MODULE Spec2Model ----
(***************************************************************************)
(* eieio::Error, a replacement of std::io::Error implementing Eq + Clone.  *)
(*                                                                         *)
(* The state is the bag of live Error values, the bag of Arc handles        *)
(* returned by into_inner, the heap of Arc allocations they point to, and  *)
(* the position of each thread.  Every public operation of src/lib.rs is   *)
(* one action; Arc's drop is two steps (the atomic decrement, then the     *)
(* destruction by the thread that saw the count fall to zero).             *)
(***************************************************************************)
EXTENDS Integers, Sequences, FiniteSets, Bags, TLC

\* ------------------------------------------------------------------ bounds
MaxErrs == 2        \* Error values alive at once
MaxHandles == 1     \* Arc handles (results of into_inner) alive at once
MaxCalls == 2       \* constructor calls in one behaviour
NThreads == 2       \* threads operating on the values

Allocs == 1..MaxCalls
Threads == 1..NThreads

\* --------------------------------------------------------- external types
MaxI32 == 2147483647
MinI32 == -MaxI32 - 1

\* i32 raw codes: both ends of the range and two errno values of one kind
Codes == {MinI32, 1, 13, MaxI32}

\* io::ErrorKind values a caller can name
Kinds == {"PermissionDenied", "Other"}

\* descriptions of the causal objects handed to Error::new (Box::from(&str))
Objects == {"foo", ""}

\* std's classification of a raw code (unix decode_error_kind)
DecodeErrorKind(code) ==
    CASE code = 1 -> "PermissionDenied"
      [] code = 2 -> "NotFound"
      [] code = 13 -> "PermissionDenied"
      [] OTHER -> "Uncategorized"

\* decimal formatting of an i32, digit by digit
Digit(d) == SubSeq("0123456789", d + 1, d + 1)

RECURSIVE NatDecimal(_)
NatDecimal(n) ==
    IF n < 10 THEN Digit(n) ELSE NatDecimal(n \div 10) \o Digit(n % 10)

RECURSIVE NegDecimal(_)
NegDecimal(n) ==
    LET d == (10 - (n % 10)) % 10
        rest == (n + d) \div 10
    IN  IF rest = 0 THEN Digit(d) ELSE NegDecimal(rest) \o Digit(d)

I32ToString(n) == IF n < 0 THEN "-" \o NegDecimal(n) ELSE NatDecimal(n)

\* strerror of the platform
ErrorString(code) ==
    CASE code = 0 -> "Success"
      [] code = 1 -> "Operation not permitted"
      [] code = 2 -> "No such file or directory"
      [] code = 13 -> "Permission denied"
      [] OTHER -> "Unknown error " \o I32ToString(code)

\* io::ErrorKind::description
KindDescription(kind) ==
    CASE kind = "NotFound" -> "entity not found"
      [] kind = "PermissionDenied" -> "permission denied"
      [] kind = "Other" -> "other error"
      [] OTHER -> "uncategorized error"

\* ------------------------------------------------------------ Repr values
NoPtr == 0

Os(code) == [tag |-> "Os", code |-> code, kind |-> "-", ptr |-> NoPtr]
Simple(kind) == [tag |-> "Simple", code |-> 0, kind |-> kind, ptr |-> NoPtr]
Custom(kind, ptr) == [tag |-> "Custom", code |-> 0, kind |-> kind, ptr |-> ptr]
Free == [tag |-> "Free", code |-> 0, kind |-> "-", ptr |-> NoPtr]

None == [some |-> FALSE, val |-> 0]
Some(v) == [some |-> TRUE, val |-> v]

\* std::io::Error as seen through raw_os_error / kind / into_inner
IoOs(code) == [tag |-> "Os", code |-> code, kind |-> "-", obj |-> "-"]
IoSimple(kind) == [tag |-> "Simple", code |-> 0, kind |-> kind, obj |-> "-"]
IoSimpleMessage(kind) == [tag |-> "SimpleMessage", code |-> 0, kind |-> kind, obj |-> "-"]
IoCustom(kind, obj) == [tag |-> "Custom", code |-> 0, kind |-> kind, obj |-> obj]
IoNone == [tag |-> "None", code |-> 0, kind |-> "-", obj |-> "-"]

IoErrors ==
    {IoOs(c) : c \in Codes} \cup {IoSimple(k) : k \in Kinds}
        \cup {IoSimpleMessage(k) : k \in Kinds}
        \cup {IoCustom(k, o) : k \in Kinds, o \in Objects}

IoRawOsError(e) == IF e.tag = "Os" THEN Some(e.code) ELSE None
IoKind(e) == IF e.tag = "Os" THEN DecodeErrorKind(e.code) ELSE e.kind
IoIntoInner(e) == IF e.tag = "Custom" THEN [some |-> TRUE, val |-> e.obj] ELSE [some |-> FALSE, val |-> "-"]

\* -------------------------------------------------------------------- state
\* errs: the live Error values, each with the constructor call it stems from
\* (clones keep it) and the constructor that call was;
\* handles: the live Arc handles returned by into_inner; heap: the Arc
\* allocations; pc: where each thread is; last: the last operation's record
VARIABLES errs, handles, heap, pc, nextCall, last

vars == <<errs, handles, heap, pc, nextCall, last>>

\* ------------------------------------------------------- pure operations
\* (the variants of an operation, which the properties must tell from it,
\* precede the operation)
\* variant of ArcErrorEq: the wrapped objects' contents compared
ArcErrorEqByContent(a, b) == heap[a].obj = heap[b].obj

\* ArcError::eq: Arc::ptr_eq on the two handles
ArcErrorEq(a, b) == a = b

\* variant of ReprEq: Custom compared by handle alone, the kind left out
ReprEqIgnoreKind(a, b) ==
    /\ a.tag = b.tag
    /\ CASE a.tag = "Os" -> a.code = b.code
         [] a.tag = "Simple" -> a.kind = b.kind
         [] a.tag = "Custom" -> ArcErrorEq(a.ptr, b.ptr)
         [] OTHER -> FALSE

\* variant of ReprEq: Os compared by the classification of the code
ReprEqByKind(a, b) ==
    /\ a.tag = b.tag
    /\ CASE a.tag = "Os" -> DecodeErrorKind(a.code) = DecodeErrorKind(b.code)
         [] a.tag = "Simple" -> a.kind = b.kind
         [] a.tag = "Custom" -> a.kind = b.kind /\ ArcErrorEq(a.ptr, b.ptr)
         [] OTHER -> FALSE

\* #[derive(PartialEq)] on Repr: same variant, then every field in turn
ReprEq(a, b) ==
    /\ a.tag = b.tag
    /\ CASE a.tag = "Os" -> a.code = b.code
         [] a.tag = "Simple" -> a.kind = b.kind
         [] a.tag = "Custom" -> a.kind = b.kind /\ ArcErrorEq(a.ptr, b.ptr)
         [] OTHER -> FALSE

\* variant of CloneRepr: the clone keeps the kind and loses the causal object
CloneReprLossy(r) ==
    CASE r.tag = "Os" -> Os(r.code)
      [] r.tag = "Simple" -> Simple(r.kind)
      [] OTHER -> Simple(r.kind)

\* variant of CloneRepr: the clone is rebuilt around the handle as kind Other
CloneReprAsOther(r) ==
    CASE r.tag = "Os" -> Os(r.code)
      [] r.tag = "Simple" -> Simple(r.kind)
      [] OTHER -> Custom("Other", r.ptr)

\* #[derive(Clone)] on Repr: a copy of the plain fields, Arc::clone of the handle
CloneRepr(r) ==
    CASE r.tag = "Os" -> Os(r.code)
      [] r.tag = "Simple" -> Simple(r.kind)
      [] OTHER -> Custom(r.kind, r.ptr)

\* variant of FromIoError: the nested causal object is not carried over
FromIoErrorNoInner(e, fresh) ==
    IF IoRawOsError(e).some
    THEN Os(IoRawOsError(e).val)
    ELSE Simple(IoKind(e))

\* impl From<io::Error> for Error; fresh is the allocation Arc::from would make
FromIoError(e, fresh) ==
    IF IoRawOsError(e).some
    THEN Os(IoRawOsError(e).val)
    ELSE IF IoIntoInner(e).some
         THEN Custom(IoKind(e), fresh)
         ELSE Simple(IoKind(e))

FromKind(kind) == Simple(kind)

ErrorNew(kind, ptr) == Custom(kind, ptr)

\* variant of FromRawOsError: the code narrowed to 16 bits
FromRawOsErrorNarrow(code) == Os(code % 65536)

FromRawOsError(code) == Os(code)

RawOsError(r) == IF r.tag = "Os" THEN Some(r.code) ELSE None

GetRef(r) == IF r.tag = "Custom" THEN Some(r.ptr) ELSE None

\* variant of IntoInner: the handle is dropped instead of returned
IntoInnerNone(r) == None

IntoInner(r) == IF r.tag = "Custom" THEN Some(r.ptr) ELSE None

Kind(r) == IF r.tag = "Os" THEN DecodeErrorKind(r.code) ELSE r.kind

\* variant of Display: Custom formatted from its kind, not by the wrapped object
DisplayByKind(r, objs) ==
    CASE r.tag = "Os" -> ErrorString(r.code) \o " (os error " \o I32ToString(r.code) \o ")"
      [] r.tag = "Simple" -> KindDescription(r.kind)
      [] OTHER -> KindDescription(r.kind)

\* impl Display: the text written; objs gives the description of each allocation
Display(r, objs) ==
    CASE r.tag = "Os" -> ErrorString(r.code) \o " (os error " \o I32ToString(r.code) \o ")"
      [] r.tag = "Simple" -> KindDescription(r.kind)
      [] OTHER -> objs[r.ptr].obj

\* Arc's strong count after Arc::clone and after Arc::drop's fetch_sub
\* variant of StrongAfterClone: the count is not incremented
StrongAfterCloneSame(n) == n

StrongAfterClone(n) == n + 1

StrongAfterDrop(n) == n - 1

NoAlloc == [strong |-> 0, obj |-> "-", st |-> "unalloc", drops |-> 0]
Idle == [at |-> "idle", ptr |-> NoPtr]
NoOp == [op |-> "none", arg |-> Free, res |-> Free, io |-> IoNone, ret |-> None]

Value(repr, call, by) == [repr |-> repr, call |-> call, by |-> by]
One(x) == SetToBag({x})
Live == BagToSet(errs)
Held == BagToSet(handles)

\* an idle thread may start an operation; idle threads are interchangeable
\* (values are Send), so the first of them stands for all
Idles(t) == pc[t].at = "idle" /\ \A q \in Threads : q < t => pc[q].at # "idle"
HasRoom == BagCardinality(errs) < MaxErrs
CanConstruct(t) == Idles(t) /\ nextCall <= MaxCalls /\ HasRoom

Init ==
    /\ errs = EmptyBag
    /\ handles = EmptyBag
    /\ heap = [a \in Allocs |-> NoAlloc]
    /\ pc = [t \in Threads |-> Idle]
    /\ nextCall = 1
    /\ last = NoOp

\* Arc::from(Box<dyn Error>): a new allocation holding obj, strong count 1
Allocate(a, obj) == [heap EXCEPT ![a] = [strong |-> 1, obj |-> obj, st |-> "live", drops |-> 0]]

\* Arc::drop on a handle to a by thread t: the fetch_sub, and drop_slow pending
\* for the thread that saw the count at 1
Release(t, a) ==
    /\ heap' = [heap EXCEPT ![a].strong = StrongAfterDrop(@)]
    /\ pc' = [pc EXCEPT ![t] = IF heap[a].strong = 1 THEN [at |-> "drop_slow", ptr |-> a] ELSE Idle]

\* Error::new(kind, error) with an owned causal object (a Box, a &str, a value)
New(t, kind, obj) ==
    /\ CanConstruct(t)
    /\ errs' = errs (+) One(Value(ErrorNew(kind, nextCall), nextCall, "new"))
    /\ heap' = Allocate(nextCall, obj)
    /\ nextCall' = nextCall + 1
    /\ last' = NoOp
    /\ UNCHANGED <<handles, pc>>

\* Error::new(kind, error) with error an Arc<dyn Error + Send + Sync>: Into is
\* the identity, the handle is moved into the value
NewFromArc(t, kind, h) ==
    /\ CanConstruct(t) /\ h \in Held
    /\ errs' = errs (+) One(Value(ErrorNew(kind, h), nextCall, "new_arc"))
    /\ handles' = handles (-) One(h)
    /\ nextCall' = nextCall + 1
    /\ last' = NoOp
    /\ UNCHANGED <<heap, pc>>

\* Error::from(e: io::Error)
From(t, e) ==
    /\ CanConstruct(t)
    /\ errs' = errs (+) One(Value(FromIoError(e, nextCall), nextCall, "from"))
    /\ heap' = IF FromIoError(e, nextCall).tag = "Custom"
               THEN Allocate(FromIoError(e, nextCall).ptr, e.obj)
               ELSE heap
    /\ nextCall' = nextCall + 1
    /\ last' = [NoOp EXCEPT !.op = "from", !.io = e, !.res = FromIoError(e, nextCall)]
    /\ UNCHANGED <<handles, pc>>

\* Error::from(kind: io::ErrorKind)
FromErrorKind(t, kind) ==
    /\ CanConstruct(t)
    /\ errs' = errs (+) One(Value(FromKind(kind), nextCall, "from_kind"))
    /\ nextCall' = nextCall + 1
    /\ last' = NoOp
    /\ UNCHANGED <<handles, heap, pc>>

\* Error::from_raw_os_error(code)
FromRaw(t, code) ==
    /\ CanConstruct(t)
    /\ errs' = errs (+) One(Value(FromRawOsError(code), nextCall, "from_raw_os_error"))
    /\ nextCall' = nextCall + 1
    /\ last' = [NoOp EXCEPT !.op = "from_raw_os_error", !.arg = Os(code), !.res = FromRawOsError(code)]
    /\ UNCHANGED <<handles, heap, pc>>

\* Error::last_os_error(): whatever code the platform holds for the thread
LastOsError(t) ==
    \E code \in Codes :
        /\ CanConstruct(t)
        /\ errs' = errs (+) One(Value(FromIoError(IoOs(code), nextCall), nextCall, "last_os_error"))
        /\ nextCall' = nextCall + 1
        /\ last' = [NoOp EXCEPT !.op = "from", !.io = IoOs(code), !.res = FromIoError(IoOs(code), nextCall)]
        /\ UNCHANGED <<handles, heap, pc>>

\* e.clone()
Clone(t, e) ==
    /\ Idles(t) /\ e \in Live /\ HasRoom
    /\ errs' = errs (+) One([e EXCEPT !.repr = CloneRepr(e.repr)])
    /\ heap' = IF e.repr.tag = "Custom"
               THEN [heap EXCEPT ![e.repr.ptr].strong = StrongAfterClone(@)]
               ELSE heap
    /\ last' = [NoOp EXCEPT !.op = "clone", !.arg = e.repr, !.res = CloneRepr(e.repr)]
    /\ UNCHANGED <<handles, pc, nextCall>>

\* the value e goes out of scope
Drop(t, e) ==
    /\ Idles(t) /\ e \in Live
    /\ errs' = errs (-) One(e)
    /\ IF e.repr.tag = "Custom" THEN Release(t, e.repr.ptr) ELSE UNCHANGED <<heap, pc>>
    /\ last' = NoOp
    /\ UNCHANGED <<handles, nextCall>>

\* Arc::drop_slow: the causal object is destroyed and its memory released
DropSlow(t) ==
    /\ pc[t].at = "drop_slow"
    /\ heap' = [heap EXCEPT ![pc[t].ptr] = [@ EXCEPT !.st = "destroyed", !.obj = "-", !.drops = @ + 1]]
    /\ pc' = [pc EXCEPT ![t] = Idle]
    /\ last' = NoOp
    /\ UNCHANGED <<errs, handles, nextCall>>

\* e.into_inner(): consumes the value; the handle of a Custom is handed out
IntoInnerOp(t, e) ==
    /\ Idles(t) /\ e \in Live
    /\ e.repr.tag = "Custom" => BagCardinality(handles) < MaxHandles
    /\ errs' = errs (-) One(e)
    /\ handles' = IF IntoInner(e.repr).some
                  THEN handles (+) One(IntoInner(e.repr).val)
                  ELSE handles
    /\ IF e.repr.tag = "Custom" /\ ~IntoInner(e.repr).some
       THEN Release(t, e.repr.ptr)
       ELSE UNCHANGED <<heap, pc>>
    /\ last' = [NoOp EXCEPT !.op = "into_inner", !.arg = e.repr, !.ret = IntoInner(e.repr)]
    /\ UNCHANGED nextCall

\* the Arc handle h goes out of scope
DropHandle(t, h) ==
    /\ Idles(t) /\ h \in Held
    /\ handles' = handles (-) One(h)
    /\ Release(t, h)
    /\ last' = NoOp
    /\ UNCHANGED <<errs, nextCall>>

Next ==
    \E t \in Threads :
        \/ \E kind \in Kinds, obj \in Objects : New(t, kind, obj)
        \/ \E kind \in Kinds, h \in Allocs : NewFromArc(t, kind, h)
        \/ \E e \in IoErrors : From(t, e)
        \/ \E kind \in Kinds : FromErrorKind(t, kind)
        \/ \E code \in Codes : FromRaw(t, code)
        \/ LastOsError(t)
        \/ \E e \in Live : Clone(t, e)
        \/ \E e \in Live : Drop(t, e)
        \/ DropSlow(t)
        \/ \E e \in Live : IntoInnerOp(t, e)
        \/ \E h \in Allocs : DropHandle(t, h)

Spec == Init /\ [][Next]_vars

\* --------------------------------------------------------------- properties
Pairs == {p \in Live \X Live : p[1].repr.tag = "Custom" /\ p[2].repr.tag = "Custom"}
Owned(e) == e.by # "new_arc"

\* holders of allocation a: the Error values and the Arc handles pointing to it
HoldersIn(a) ==
    LET S == {e \in Live : e.repr.tag = "Custom" /\ e.repr.ptr = a}
    IN  BagCardinality([e \in S |-> CopiesIn(e, errs)]) + CopiesIn(a, handles)

\* C1: clone(e) compares equal to e for every variant, and the clone of a
\* Custom holds the same allocation as e (no copy of the causal object)
C1_CloneEqual ==
    /\ last.op = "clone" =>
        /\ ReprEq(last.res, last.arg) /\ ReprEq(last.arg, last.res)
        /\ last.res.tag = last.arg.tag
        /\ last.arg.tag = "Custom" =>
            /\ last.res.ptr = last.arg.ptr
            /\ heap[last.arg.ptr].st = "live"
            /\ \A a \in Allocs : a >= nextCall => heap[a].st = "unalloc"
    /\ \A a, b \in Live : a.call = b.call =>
        /\ ReprEq(a.repr, b.repr)
        /\ a.repr.tag = "Custom" => a.repr.ptr = b.repr.ptr

C1_Witness ==
    /\ last.op = "clone" /\ last.arg.tag = "Custom"
    /\ \E e \in Live : e.repr = last.res /\ CopiesIn(e, errs) >= 2

\* C2 as stated: Custom values of two separate constructor calls are never
\* equal, whatever causal argument the constructor was given
C2_SeparateCallsUnequal ==
    \A p \in Pairs : p[1].call # p[2].call => ~ReprEq(p[1].repr, p[2].repr)

\* C2 amended: Custom values of two separate constructor calls that were each
\* given an owned causal object are never equal, even with the same kind and
\* the same content; equal Custom values stem from one call, or one of them
\* was built by Error::new from an already shared Arc handle
C2_OwnedCallsUnequal ==
    \A p \in Pairs :
        /\ p[1].call # p[2].call /\ Owned(p[1]) /\ Owned(p[2]) => ~ReprEq(p[1].repr, p[2].repr)
        /\ ReprEq(p[1].repr, p[2].repr) => p[1].call = p[2].call \/ ~Owned(p[1]) \/ ~Owned(p[2])
        /\ p[1].call = p[2].call => ReprEq(p[1].repr, p[2].repr)

C2_Witness ==
    \E p \in Pairs :
        /\ p[1].call # p[2].call /\ Owned(p[1]) /\ Owned(p[2])
        /\ p[1].repr.kind = p[2].repr.kind
        /\ heap[p[1].repr.ptr].obj = heap[p[2].repr.ptr].obj

\* C3 as stated: two Custom values are equal iff their handles point to the
\* same allocation; the kind does not enter the result
C3_EqualIffSameAllocation ==
    \A p \in Pairs : ReprEq(p[1].repr, p[2].repr) <=> p[1].repr.ptr = p[2].repr.ptr

\* C3 amended: two Custom values are equal iff their handles point to the same
\* allocation and their stored kinds are equal (the derived equality compares
\* the kind too, so two values sharing an allocation with different kinds are
\* unequal)
C3_EqualIffSameAllocationAndKind ==
    \A p \in Pairs :
        ReprEq(p[1].repr, p[2].repr) <=>
            (p[1].repr.ptr = p[2].repr.ptr /\ p[1].repr.kind = p[2].repr.kind)

C3_Witness ==
    \E p \in Pairs :
        /\ p[1].repr.ptr = p[2].repr.ptr /\ p[1].repr.kind # p[2].repr.kind
        /\ ~ReprEq(p[1].repr, p[2].repr)

\* C4: Os values are equal iff their codes are equal, Simple values iff their
\* kinds are equal, however they were constructed, and values of different
\* variants are never equal, whatever kind() returns for them
C4_StructuralEquality ==
    \A a, b \in Live :
        /\ a.repr.tag = "Os" /\ b.repr.tag = "Os" =>
            (ReprEq(a.repr, b.repr) <=> a.repr.code = b.repr.code)
        /\ a.repr.tag = "Simple" /\ b.repr.tag = "Simple" =>
            (ReprEq(a.repr, b.repr) <=> a.repr.kind = b.repr.kind)
        /\ a.repr.tag # b.repr.tag => ~ReprEq(a.repr, b.repr)

C4_Witness ==
    \E a, b \in Live :
        /\ a.repr.tag = "Os" /\ b.repr.tag = "Os"
        /\ a.repr.code # b.repr.code /\ Kind(a.repr) = Kind(b.repr)
        /\ ~ReprEq(a.repr, b.repr)

\* C5: Error::from(e) is Os(code) when e has a raw code, else Custom(kind(e),
\* a new handle around the nested object) when e has one, else Simple(kind(e));
\* kind() of the result is the kind of e
C5_FromPrecedence ==
    last.op = "from" =>
        LET e == last.io
            r == last.res
        IN  /\ IoRawOsError(e).some => r = Os(IoRawOsError(e).val)
            /\ ~IoRawOsError(e).some /\ IoIntoInner(e).some =>
                /\ r = Custom(IoKind(e), nextCall - 1)
                /\ heap[r.ptr] = [strong |-> 1, obj |-> IoIntoInner(e).val, st |-> "live", drops |-> 0]
            /\ ~IoRawOsError(e).some /\ ~IoIntoInner(e).some => r = Simple(IoKind(e))
            /\ Kind(r) = IoKind(e)
            /\ \E v \in Live : v.repr = r /\ v.call = nextCall - 1

C5_Witness ==
    /\ last.op = "from" /\ last.io.tag = "Custom"
    /\ last.res.tag = "Custom" /\ Kind(last.res) = "PermissionDenied"

\* C6: from_raw_os_error(c).raw_os_error() is Some(c) for every i32 c; it is
\* None for every value built from a kind or by Error::new, and their clones
C6_RawCodeRoundTrip ==
    /\ last.op = "from_raw_os_error" => RawOsError(last.res) = Some(last.arg.code)
    /\ \A e \in Live :
        /\ e.by = "from_raw_os_error" => RawOsError(e.repr).some
        /\ e.by \in {"from_kind", "new", "new_arc"} => RawOsError(e.repr) = None

C6_Witness ==
    /\ last.op = "from_raw_os_error" /\ last.arg.code = MinI32
    /\ \E e \in Live : e.by = "new" /\ CopiesIn(e, errs) >= 1

\* C7: into_inner on a Custom returns the handle to the allocation get_ref
\* exposed before the call, which the clones still hold; on Os and Simple both
\* into_inner and get_ref are None; get_ref is Some for every Custom
C7_IntoInnerSameAllocation ==
    /\ last.op = "into_inner" =>
        /\ last.arg.tag = "Custom" =>
            /\ last.ret.some /\ GetRef(last.arg).some
            /\ last.ret.val = GetRef(last.arg).val
            /\ last.ret.val \in Held
            /\ heap[last.ret.val].st = "live"
        /\ last.arg.tag # "Custom" => last.ret = None /\ GetRef(last.arg) = None
    /\ \A e \in Live :
        /\ e.repr.tag = "Custom" =>
            /\ GetRef(e.repr).some /\ IntoInner(e.repr).some
            /\ GetRef(e.repr).val # NoPtr
            /\ heap[GetRef(e.repr).val].st = "live"
        /\ e.repr.tag # "Custom" => GetRef(e.repr) = None /\ IntoInner(e.repr) = None

C7_Witness ==
    /\ last.op = "into_inner" /\ last.arg.tag = "Custom"
    /\ \E e \in Live : GetRef(e.repr) = last.ret

\* C8 as stated: the description of every value, of every variant, is non-empty
C8_DescriptionNonEmpty ==
    \A e \in Live : Len(Display(e.repr, heap)) > 0

\* C8 amended: the description of every Os and Simple value is non-empty; the
\* description of a Custom is exactly the wrapped object's own description,
\* and so is empty when that is
C8_DescriptionDelegated ==
    \A e \in Live :
        /\ e.repr.tag \in {"Os", "Simple"} => Len(Display(e.repr, heap)) > 0
        /\ e.repr.tag = "Custom" =>
            /\ heap[e.repr.ptr].st = "live"
            /\ Display(e.repr, heap) = heap[e.repr.ptr].obj

C8_Witness ==
    \E e \in Live :
        e.repr.tag = "Custom" /\ heap[e.repr.ptr].obj = "" /\ Display(e.repr, heap) = ""

\* C9: the strong count of every allocation is the number of its live holders;
\* the object is destroyed once, after the count fell to zero, by the thread
\* that took it there, and never while a holder is live
C9_CountIsHolders ==
    \A a \in Allocs :
        /\ heap[a].strong = HoldersIn(a)
        /\ HoldersIn(a) > 0 => heap[a].st = "live"
        /\ a >= nextCall => heap[a].st = "unalloc"
        /\ heap[a].st = "destroyed" <=> heap[a].drops = 1
        /\ heap[a].drops <= 1
        /\ (heap[a].st = "live" /\ heap[a].strong = 0) <=>
            Cardinality({t \in Threads : pc[t] = [at |-> "drop_slow", ptr |-> a]}) = 1
        /\ Cardinality({t \in Threads : pc[t].at = "drop_slow" /\ pc[t].ptr = a}) <= 1

C9_Witness ==
    \E a, b \in Allocs :
        /\ heap[a].strong = 2 /\ a \in Held /\ HoldersIn(a) = 2
        /\ heap[b].st = "live" /\ heap[b].strong = 0
        /\ \E t \in Threads : pc[t].at = "drop_slow" /\ pc[t].ptr = b

\* C10 as stated: two Custom values whose handles point to the same allocation
\* store the same kind, also when one was built by Error::new from a handle
\* that into_inner returned
C10_SameAllocationSameKind ==
    \A p \in Pairs : p[1].repr.ptr = p[2].repr.ptr => p[1].repr.kind = p[2].repr.kind

\* C10 amended: two Custom values whose handles point to the same allocation
\* store the same kind when neither was built by Error::new from an already
\* shared Arc handle (such a value carries the kind its own call was given)
C10_SameAllocationSameKindOwned ==
    \A p \in Pairs :
        p[1].repr.ptr = p[2].repr.ptr /\ Owned(p[1]) /\ Owned(p[2]) =>
            p[1].repr.kind = p[2].repr.kind /\ p[1].call = p[2].call

C10_Witness ==
    \E e \in Live :
        /\ e.repr.tag = "Custom" /\ Owned(e) /\ CopiesIn(e, errs) >= 2
        /\ e.repr.kind = "PermissionDenied"

====
